---- MODULE Spec2Model ----
(***************************************************************************)
(* State-machine model of the APOD micro-service (apod/app.py): one GET    *)
(* request to /v1/apod, from the query parameters to the value that leaves *)
(* the endpoint.  Dates are Python `date` objects, represented by their    *)
(* proleptic Gregorian ordinal; date strings are the triple of the fields  *)
(* of "YYYY-MM-DD".  The wall clock is a variable that may advance while a *)
(* request is being processed; every datetime.today() reads it.            *)
(***************************************************************************)
EXTENDS Integers, Sequences, FiniteSets, TLC

\* ------------------------------------------------------------------ bounds
\* The clock starts on one of the first MaxSpan + 1 days of the valid window.
MaxSpan == 2
\* The calendar day changes at most MaxTicks times during one request.
MaxTicks == 1
\* Largest count for which the random draw is enumerated.
MaxDraw == 2
\* Longest body of an explanation paragraph, in characters.
MaxBody == 3
\* Largest number of a and b elements on a page.
MaxElems == 3

\* --------------------------------------------------------------- constants
SERVICE_VERSION == "v1"
ALLOWED_APOD_FIELDS == {"concept_tags", "date", "hd", "count", "start_date", "end_date"}
\* datetime(1995, 6, 16).toordinal()
BEGIN_ORDINAL == 728460
\* the upper limit of count
COUNT_LIMIT == 100

\* ------------------------------------------------- the calendar (datetime)
IsLeap(y) == (y % 4 = 0) /\ ((y % 100 # 0) \/ (y % 400 = 0))

DaysInMonth(y, m) ==
    IF m = 2 THEN (IF IsLeap(y) THEN 29 ELSE 28)
    ELSE IF m \in {4, 6, 9, 11} THEN 30 ELSE 31

RECURSIVE DaysBeforeMonth(_, _)
DaysBeforeMonth(y, m) ==
    IF m = 1 THEN 0 ELSE DaysBeforeMonth(y, m - 1) + DaysInMonth(y, m - 1)

DaysBeforeYear(y) ==
    (y - 1) * 365 + ((y - 1) \div 4) - ((y - 1) \div 100) + ((y - 1) \div 400)

\* date(y, m, d).toordinal()
ToOrdinal(ymd) == DaysBeforeYear(ymd[1]) + DaysBeforeMonth(ymd[1], ymd[2]) + ymd[3]

RECURSIVE MonthOf(_, _, _)
MonthOf(y, m, n) ==
    IF n < DaysInMonth(y, m) THEN <<y, m, n + 1>>
    ELSE MonthOf(y, m + 1, n - DaysInMonth(y, m))

\* date.fromordinal(n), as the fields <<year, month, day>>
FromOrdinal(n) ==
    LET n0   == n - 1
        n400 == n0 \div 146097
        r400 == n0 % 146097
        n100 == r400 \div 36524
        r100 == r400 % 36524
        n4   == r100 \div 1461
        r4   == r100 % 1461
        n1   == r4 \div 365
        r1   == r4 % 365
        year == n400 * 400 + n100 * 100 + n4 * 4 + n1 + 1
    IN  IF n1 = 4 \/ n100 = 4 THEN <<year - 1, 12, 31>>
        ELSE MonthOf(year, 1, r1)

\* dt.isoformat() and strftime('%Y-%m-%d'): the text "YYYY-MM-DD"
IsoFormat(dt) == FromOrdinal(dt)

\* dt.strftime('%y%m%d'): the two-digit year keeps no century
UrlDate(dt) == <<FromOrdinal(dt)[1] % 100, FromOrdinal(dt)[2], FromOrdinal(dt)[3]>>

\* datetime.strptime(s, '%Y-%m-%d') accepts s: three fields naming a real day
WellFormed(s) ==
    /\ Len(s) = 3
    /\ s[1] \in 1..9999
    /\ s[2] \in 1..12
    /\ s[3] \in 1..DaysInMonth(s[1], s[2])

\* datetime.strptime(s, '%Y-%m-%d').date(), for a well-formed s
Strptime(s) == ToOrdinal(s)

\* ------------------------------------------------------ request parameters
\* A query parameter is absent (args.get gives None) or a string; a date
\* string is the empty text <<>> or three fields.
Absent == [k |-> "absent", s |-> <<>>]
Str(s) == [k |-> "str", s |-> s]

\* "1995-06-31" has the shape of a date and names no day
BadDateString == <<1995, 6, 31>>

DateStrings ==
    {IsoFormat(d) : d \in (BEGIN_ORDINAL - 1)..(BEGIN_ORDINAL + MaxSpan + 1)}
        \cup {<<>>, BadDateString}

DateParams == {Absent} \cup {Str(s) : s \in DateStrings}

\* count is absent, the empty text, a text that is no number, or a numeral
Counts == {-1, 0} \cup (1..MaxDraw) \cup {COUNT_LIMIT, COUNT_LIMIT + 1}

CountParams ==
    {[k |-> "absent", n |-> 0], [k |-> "empty", n |-> 0], [k |-> "text", n |-> 0]}
        \cup {[k |-> "int", n |-> n] : n \in Counts}

\* the query carries at most one more parameter, with a non-empty value:
\* concept_tags, the allowed name hd, or a name that is not allowed
OtherNames == {"none", "concept_tags", "hd", "api_key"}

Requests ==
    [date : DateParams, count : CountParams, start_date : DateParams,
     end_date : DateParams, other : OtherNames]

\* Python truth of args.get(name): None and '' are false
TruthyDate(p) == p.k = "str" /\ p.s # <<>>
TruthyCount(p) == p.k \in {"text", "int"}

\* the keys of request.query_params
Keys(a) ==
    (IF a.date.k # "absent" THEN {"date"} ELSE {})
    \cup (IF a.count.k # "absent" THEN {"count"} ELSE {})
    \cup (IF a.start_date.k # "absent" THEN {"start_date"} ELSE {})
    \cup (IF a.end_date.k # "absent" THEN {"end_date"} ELSE {})
    \cup (IF a.other # "none" THEN {a.other} ELSE {})

\* use_concept_tags = args.get('concept_tags', False), taken for its truth
UseConceptTags(a) == a.other = "concept_tags"

\* _validate(data)
Validate(a) == \A key \in Keys(a) : key \in ALLOWED_APOD_FIELDS

\* the branch apod() takes for the query parameters a
Dispatch(a) ==
    IF ~Validate(a) THEN "reject_field"
    ELSE IF ~TruthyCount(a.count) /\ ~TruthyDate(a.start_date) /\ ~TruthyDate(a.end_date)
        THEN "single"
    ELSE IF ~TruthyDate(a.date) /\ ~TruthyDate(a.start_date) /\ ~TruthyDate(a.end_date)
            /\ TruthyCount(a.count)
        THEN "random"
    ELSE IF ~TruthyCount(a.count) /\ ~TruthyDate(a.date) /\ TruthyDate(a.start_date)
        THEN "range"
    ELSE "reject_combo"

\* ------------------------------------------------------------ pure helpers
\* _abort(code, msg): json.dumps is called without the object to serialise
\* and raises TypeError before any response exists
Abort(code, msg) == [kind |-> "exception", exc |-> "TypeError", code |-> 0, body |-> <<>>]

\* a window whose latest day is excluded
ValidateDate_Exclusive(dt, today) == ~((dt >= today) \/ (dt < BEGIN_ORDINAL))

\* _validate_date(dt) with today read from the clock: TRUE when it returns,
\* FALSE when it raises ValueError
ValidateDate(dt, today) == ~((dt > today) \/ (dt < BEGIN_ORDINAL))

\* a count check that turns the limit itself away
CountRejected_Exclusive(count) == count >= COUNT_LIMIT \/ count <= 0

\* the count check of _get_json_for_random_dates: TRUE when it raises
CountRejected(count) == count > COUNT_LIMIT \/ count <= 0

\* random.sample(population, n): the orderings of n distinct members
Sample(population, n) ==
    {s \in [1..n -> population] : \A i, j \in 1..n : i # j => s[i] # s[j]}

\* an order test that turns a one-day range away
RangeInverted_OrEqual(start_ordinal, end_ordinal) == start_ordinal >= end_ordinal

\* the order test of _get_json_for_date_range: TRUE when it raises
RangeInverted(start_ordinal, end_ordinal) == start_ordinal > end_ordinal

\* a while test that stops one day early
RangeContinues_Strict(start_ordinal, end_ordinal) == start_ordinal < end_ordinal

\* the while test of _get_json_for_date_range
RangeContinues(start_ordinal, end_ordinal) == start_ordinal <= end_ordinal

\* use_default_today_date of _get_json_for_date: the caller gave no date
DefaultsToToday(input_date) == ~TruthyDate(input_date)

\* a batch flag set for every day
IsToday_Always(ordinal, today_ordinal) == TRUE

\* a batch flag set for every day up to today
IsToday_UpTo(ordinal, today_ordinal) == ordinal <= today_ordinal

\* use_default_today_date of the batch modes
IsToday(ordinal, today_ordinal) == ordinal = today_ordinal

\* a fallback that fetches the same day again
FallbackDate_SameDay(dt) == dt

\* dt - timedelta(days=1) of parse_apod
FallbackDate(dt) == dt - 1

\* a record dated by its day and built from the page of the day before
GetApodChars_StalePage(dt) ==
    [date |-> IsoFormat(dt), page |-> UrlDate(dt - 1), concepts |-> "absent",
     service_version |-> "unset"]

\* _get_apod_chars(dt), when the page is fetched and its fields extracted:
\* the page is the one the URL names, the date is the argument's
GetApodChars(dt) ==
    [date |-> IsoFormat(dt), page |-> UrlDate(dt), concepts |-> "absent",
     service_version |-> "unset"]

\* a range loop that keeps every record
RangeKeep_All(data, dt) == TRUE

\* the range loop's test data['date'] == dt.isoformat()
RangeKeep(data, dt) == data.date = IsoFormat(dt)

\* the exceptions that are instances of ValueError
IsValueError(exc) ==
    exc \in {"MalformedDate", "OutOfRangeDate", "InvalidCount", "InvalidRange", "ValueError"}

\* the except clauses of apod(): what leaves the endpoint for an exception
\* raised in its try body
Except(exc) ==
    IF IsValueError(exc) THEN Abort(400, exc) ELSE Abort(500, "Internal Service Error")

\* ------------------------------------------------------------------- state
VARIABLES
    args,          \* request.query_params of the request
    alchemy_key,   \* ALCHEMY_API_KEY: "None", "key", or "unread" until its first use
    clock,         \* the ordinal of the wall clock's calendar day
    ticks,         \* midnights passed since the request arrived
    reads,         \* the values datetime.today() has returned to this request
    pc,            \* the request's position in apod() and its callees
    mode,          \* the branch apod() took
    cur,           \* dt of single-date mode, start_ordinal of range mode
    flag,          \* use_default_today_date of _get_json_for_date
    end_ord,       \* end_ordinal of range mode
    today_ord,     \* today_ordinal of the batch modes
    pending,       \* random_date_ordinals not yet iterated
    checks,        \* the _validate_date calls made: dt, today, whether it returned
    units,         \* the _apod_handler calls made: dt, flag, fetches, outcome
    all_data,      \* all_data of the batch modes
    raised,        \* the exception propagating to apod()'s except clauses
    response,      \* what leaves apod()
    soup,          \* the page _get_apod_chars parses
    props          \* the props _get_apod_chars builds from it

vars == <<args, alchemy_key, clock, ticks, reads, pc, mode, cur, flag, end_ord,
          today_ord, pending, checks, units, all_data, raised, response, soup, props>>

NoResponse == [kind |-> "none", exc |-> "", code |-> 0, body |-> <<>>]

\* the request's steps take a fetched page as parsed or failed (GetApodChars);
\* the parsing of one page is followed step by step under ExtractSpec
NoPage == [img |-> Absent, iframe |-> Absent, elems |-> <<>>, para3 |-> Absent,
           lines |-> <<>>, centers |-> <<>>, title |-> Absent]
NoProps == [explanation |-> <<>>, title |-> <<>>, copyright |-> Absent, media_type |-> "",
            url |-> <<>>, date |-> <<>>, hdurl |-> Absent]

Init ==
    /\ args \in Requests
    /\ alchemy_key = "unread"
    /\ clock \in BEGIN_ORDINAL..(BEGIN_ORDINAL + MaxSpan)
    /\ ticks = 0
    /\ reads = {}
    /\ pc = "recv"
    /\ mode = "none"
    /\ cur = 0
    /\ flag = FALSE
    /\ end_ord = 0
    /\ today_ord = 0
    /\ pending = <<>>
    /\ checks = <<>>
    /\ units = <<>>
    /\ all_data = <<>>
    /\ raised = "none"
    /\ response = NoResponse
    /\ soup = NoPage
    /\ props = NoProps

\* an exception leaves the mode function (or apod()'s try body)
Raise(exc) ==
    /\ raised' = exc
    /\ pc' = "catch"

\* a call _validate_date(dt) is made while the clock shows `today`
Checked(dt, today) ==
    Append(checks, [dt |-> dt, today |-> today, ok |-> ValidateDate(dt, today)])

\* a call _apod_handler(dt, use_concept_tags, use_default_today_date) begins
StartUnit(dt, fb) ==
    /\ units' = Append(units, [dt |-> dt, fb |-> fb, tries |-> <<>>, status |-> "running",
                                result |-> <<>>])
    /\ pc' = "attempt1"

\* a handler that skips the failed day of a batch and goes on with the loop
HandlerFails_Skipped ==
    IF mode = "single"
       THEN Raise(Abort(500, "Internal Service Error").exc)
       ELSE /\ raised' = raised
            /\ pc' = IF mode = "random" THEN "random_loop" ELSE "range_loop"

\* _apod_handler's except clause: return _abort(500, ...), and what _abort
\* raises there leaves _apod_handler and the loop that called it
HandlerFails == Raise(Abort(500, "Internal Service Error").exc)

\* the positions from which the request still reads the clock
ReadsAhead ==
    {"single_resolve", "single_validate", "random_check", "random_draw",
     "range_start", "range_end", "range_end_validate", "range_order"}

\* the wall clock passes midnight before the request's last reading of it
\* (a later midnight changes nothing the request does)
Tick ==
    /\ pc \in ReadsAhead
    /\ ticks < MaxTicks
    /\ clock' = clock + 1
    /\ ticks' = ticks + 1
    /\ UNCHANGED <<soup, props, args, alchemy_key, reads, pc, mode, cur, flag, end_ord, today_ord,
                   pending, checks, units, all_data, raised, response>>

\* apod(): field validation and the choice of the mode
Apod ==
    /\ pc = "recv"
    /\ mode' = Dispatch(args)
    /\ IF Dispatch(args) \in {"reject_field", "reject_combo"}
          THEN \* return _abort(400, ...): what _abort raises reaches the except clauses
               /\ raised' = Abort(400, "Bad Request").exc
               /\ response' = Except(Abort(400, "Bad Request").exc)
               /\ pc' = "done"
          ELSE /\ pc' = CASE Dispatch(args) = "single" -> "single_resolve"
                          [] Dispatch(args) = "random" -> "random_check"
                          [] Dispatch(args) = "range" -> "range_start"
               /\ UNCHANGED <<raised, response>>
    /\ UNCHANGED <<soup, props, args, alchemy_key, clock, ticks, reads, cur, flag, end_ord, today_ord,
                   pending, checks, units, all_data>>

\* _get_json_for_date: the date defaults to today, then is parsed
SingleResolve ==
    /\ pc = "single_resolve"
    /\ LET defaulted == DefaultsToToday(args.date)
           input_date == IF defaulted THEN IsoFormat(clock) ELSE args.date.s
       IN  /\ reads' = IF defaulted THEN reads \cup {clock} ELSE reads
           /\ flag' = defaulted
           /\ IF WellFormed(input_date)
                 THEN cur' = Strptime(input_date) /\ pc' = "single_validate"
                      /\ raised' = raised
                 ELSE cur' = cur /\ Raise("MalformedDate")
    /\ UNCHANGED <<soup, props, args, alchemy_key, clock, ticks, mode, end_ord, today_ord, pending,
                   checks, units, all_data, response>>

\* _get_json_for_date: _validate_date(dt), then the call of _apod_handler
SingleValidate ==
    /\ pc = "single_validate"
    /\ reads' = reads \cup {clock}
    /\ checks' = Checked(cur, clock)
    /\ IF ValidateDate(cur, clock)
          THEN StartUnit(cur, flag) /\ raised' = raised
          ELSE Raise("OutOfRangeDate") /\ units' = units
    /\ UNCHANGED <<soup, props, args, alchemy_key, clock, ticks, mode, cur, flag, end_ord, today_ord,
                   pending, all_data, response>>

\* int(count) in apod() and the count check of _get_json_for_random_dates
RandomCheck ==
    /\ pc = "random_check"
    /\ IF args.count.k # "int" THEN Raise("ValueError")
       ELSE IF CountRejected(args.count.n) THEN Raise("InvalidCount")
       ELSE pc' = "random_draw" /\ raised' = raised
    /\ UNCHANGED <<soup, props, args, alchemy_key, clock, ticks, reads, mode, cur, flag, end_ord,
                   today_ord, pending, checks, units, all_data, response>>

\* _get_json_for_random_dates: the window and the draw
RandomDraw ==
    /\ pc = "random_draw"
    /\ reads' = reads \cup {clock}
    /\ today_ord' = clock
    /\ LET date_range == BEGIN_ORDINAL..clock
       IN  IF args.count.n > Cardinality(date_range)
              THEN Raise("ValueError") /\ pending' = pending
              ELSE /\ pending' \in Sample(date_range, args.count.n)
                   /\ pc' = "random_loop"
                   /\ raised' = raised
    /\ UNCHANGED <<soup, props, args, alchemy_key, clock, ticks, mode, cur, flag, end_ord, checks,
                   units, all_data, response>>

\* _get_json_for_random_dates: the next drawn day, or the return
RandomLoop ==
    /\ pc = "random_loop"
    /\ IF pending # <<>>
          THEN /\ StartUnit(Head(pending), IsToday(Head(pending), today_ord))
               /\ cur' = Head(pending)
               /\ pending' = Tail(pending)
               /\ response' = response
          ELSE /\ response' = [kind |-> "array", exc |-> "", code |-> 200, body |-> all_data]
               /\ pc' = "done"
               /\ UNCHANGED <<cur, pending, units>>
    /\ UNCHANGED <<soup, props, args, alchemy_key, clock, ticks, reads, mode, flag, end_ord, today_ord,
                   checks, all_data, raised>>

\* _get_json_for_date_range: start_date is parsed and validated
RangeStart ==
    /\ pc = "range_start"
    /\ IF ~WellFormed(args.start_date.s)
          THEN Raise("MalformedDate") /\ UNCHANGED <<cur, reads, checks>>
          ELSE /\ cur' = Strptime(args.start_date.s)
               /\ reads' = reads \cup {clock}
               /\ checks' = Checked(Strptime(args.start_date.s), clock)
               /\ IF ValidateDate(Strptime(args.start_date.s), clock)
                     THEN pc' = "range_end" /\ raised' = raised
                     ELSE Raise("OutOfRangeDate")
    /\ UNCHANGED <<soup, props, args, alchemy_key, clock, ticks, mode, flag, end_ord, today_ord,
                   pending, units, all_data, response>>

\* _get_json_for_date_range: end_date defaults to today, then is parsed
RangeEnd ==
    /\ pc = "range_end"
    /\ LET defaulted == ~TruthyDate(args.end_date)
           end_date == IF defaulted THEN IsoFormat(clock) ELSE args.end_date.s
       IN  /\ reads' = IF defaulted THEN reads \cup {clock} ELSE reads
           /\ IF WellFormed(end_date)
                 THEN end_ord' = Strptime(end_date) /\ pc' = "range_end_validate"
                      /\ raised' = raised
                 ELSE end_ord' = end_ord /\ Raise("MalformedDate")
    /\ UNCHANGED <<soup, props, args, alchemy_key, clock, ticks, mode, cur, flag, today_ord, pending,
                   checks, units, all_data, response>>

\* _get_json_for_date_range: _validate_date(end_dt)
RangeEndValidate ==
    /\ pc = "range_end_validate"
    /\ reads' = reads \cup {clock}
    /\ checks' = Checked(end_ord, clock)
    /\ IF ValidateDate(end_ord, clock)
          THEN pc' = "range_order" /\ raised' = raised
          ELSE Raise("OutOfRangeDate")
    /\ UNCHANGED <<soup, props, args, alchemy_key, clock, ticks, mode, cur, flag, end_ord, today_ord,
                   pending, units, all_data, response>>

\* _get_json_for_date_range: today_ordinal and the order of the two ends
RangeOrder ==
    /\ pc = "range_order"
    /\ reads' = reads \cup {clock}
    /\ today_ord' = clock
    /\ IF RangeInverted(cur, end_ord)
          THEN Raise("InvalidRange")
          ELSE pc' = "range_loop" /\ raised' = raised
    /\ UNCHANGED <<soup, props, args, alchemy_key, clock, ticks, mode, cur, flag, end_ord, pending,
                   checks, units, all_data, response>>

\* _get_json_for_date_range: the while test, the next day or the return
RangeLoop ==
    /\ pc = "range_loop"
    /\ IF RangeContinues(cur, end_ord)
          THEN StartUnit(cur, IsToday(cur, today_ord)) /\ response' = response
          ELSE /\ response' = [kind |-> "array", exc |-> "", code |-> 200, body |-> all_data]
               /\ pc' = "done"
               /\ units' = units
    /\ UNCHANGED <<soup, props, args, alchemy_key, clock, ticks, reads, mode, cur, flag, end_ord,
                   today_ord, pending, checks, all_data, raised>>

\* the unit in progress, with one more fetch recorded
Tried(day, ok, status) ==
    LET u == units[Len(units)]
    IN  [units EXCEPT ![Len(units)] =
            [u EXCEPT !.tries = Append(u.tries, [day |-> day, ok |-> ok]),
                      !.status = status,
                      !.result = IF ok THEN GetApodChars(day).date ELSE <<>>]]

\* _apod_handler after parse_apod returned page_props for the fetch of `day`:
\* the concept tags, then the caller's use of the returned data
Handled(day, key) ==
    IF UseConceptTags(args) /\ key # "None"
       THEN \* get_concepts(request, ...): the name request is not defined there
            /\ units' = Tried(day, TRUE, "failed")
            /\ HandlerFails
            /\ UNCHANGED <<cur, all_data, response>>
       ELSE LET page_props == GetApodChars(day)
                data == [page_props EXCEPT
                            !.concepts = IF UseConceptTags(args) THEN "off" ELSE "absent",
                            !.service_version = SERVICE_VERSION]
            IN  /\ units' = Tried(day, TRUE, "ok")
                /\ raised' = raised
                /\ CASE mode = "single" ->
                            /\ response' = [kind |-> "object", exc |-> "", code |-> 200,
                                            body |-> <<data>>]
                            /\ pc' = "done"
                            /\ UNCHANGED <<cur, all_data>>
                     [] mode = "random" ->
                            /\ all_data' = Append(all_data, data)
                            /\ pc' = "random_loop"
                            /\ UNCHANGED <<cur, response>>
                     [] mode = "range" ->
                            /\ all_data' = IF RangeKeep(data, cur)
                                              THEN Append(all_data, data) ELSE all_data
                            /\ cur' = cur + 1
                            /\ pc' = "range_loop"
                            /\ response' = response

\* the values ALCHEMY_API_KEY can show when _apod_handler consults it: the
\* module read it once, so every use after the first sees the same value
KeyValues ==
    IF alchemy_key = "unread" /\ UseConceptTags(args) THEN {"None", "key"}
    ELSE {alchemy_key}

\* parse_apod: the fetch and extraction for the requested day
Attempt1(ok, key) ==
    /\ pc = "attempt1"
    /\ alchemy_key' = IF ok THEN key ELSE alchemy_key
    /\ LET u == units[Len(units)]
       IN  IF ok THEN Handled(u.dt, key)
           ELSE IF u.fb
              THEN /\ units' = Tried(u.dt, FALSE, "running")
                   /\ pc' = "attempt2"
                   /\ UNCHANGED <<cur, all_data, raised, response>>
              ELSE \* raise Exception(ex), caught in _apod_handler, which calls _abort
                   /\ units' = Tried(u.dt, FALSE, "failed")
                   /\ HandlerFails
                   /\ UNCHANGED <<cur, all_data, response>>
    /\ UNCHANGED <<soup, props, args, clock, ticks, reads, mode, flag, end_ord, today_ord,
                   pending, checks>>

\* parse_apod: the fetch and extraction for the day before
Attempt2(ok, key) ==
    /\ pc = "attempt2"
    /\ alchemy_key' = IF ok THEN key ELSE alchemy_key
    /\ LET u == units[Len(units)]
       IN  IF ok THEN Handled(FallbackDate(u.dt), key)
           ELSE /\ units' = Tried(FallbackDate(u.dt), FALSE, "failed")
                /\ HandlerFails
                /\ UNCHANGED <<cur, all_data, response>>
    /\ UNCHANGED <<soup, props, args, clock, ticks, reads, mode, flag, end_ord, today_ord,
                   pending, checks>>

\* apod(): the except clauses
Catch ==
    /\ pc = "catch"
    /\ response' = Except(raised)
    /\ pc' = "done"
    /\ UNCHANGED <<soup, props, args, alchemy_key, clock, ticks, reads, mode, cur, flag, end_ord,
                   today_ord, pending, checks, units, all_data, raised>>

Next ==
    \/ Tick
    \/ Apod
    \/ SingleResolve
    \/ SingleValidate
    \/ RandomCheck
    \/ RandomDraw
    \/ RandomLoop
    \/ RangeStart
    \/ RangeEnd
    \/ RangeEndValidate
    \/ RangeOrder
    \/ RangeLoop
    \/ \E ok \in BOOLEAN, key \in KeyValues : Attempt1(ok, key)
    \/ \E ok \in BOOLEAN, key \in KeyValues : Attempt2(ok, key)
    \/ Catch

Spec == Init /\ [][Next]_vars

\* ------------------------------------------- field extraction (one page)
\* _get_apod_chars on one fetched page.  Texts are sequences of one-character
\* strings.  The page is represented by what the code's queries on the soup
\* return: the first img and iframe, the a and b elements in document order
\* (siblings of one another), the text of the third p, the lines of the
\* page's text, the b texts of each center, the title.

BASE == <<"h","t","t","p","s",":","/","/","a","p","o","d",".","n","a","s","a",".",
          "g","o","v","/","a","p","o","d","/">>
Label == <<"E","x","p","l","a","n","a","t","i","o","n",":"," ">>
ExplanationColon == <<"E","x","p","l","a","n","a","t","i","o","n",":">>
Teaser == <<" ","T","o","m","o","r","r","o","w","'","s"," ","p","i","c","t","u","r","e">>
CopyrightWord == <<"C","o","p","y","r","i","g","h","t">>
ImagePrefix == <<"i","m","a","g","e">>
TitleSep == <<" ","-"," ">>
Whitespace == {" ", "\n", "\t"}

\* s.startswith(prefix)
StartsWith(s, prefix) ==
    Len(prefix) <= Len(s) /\ SubSeq(s, 1, Len(prefix)) = prefix

\* s.replace(old, new): one pass from the left over the matches that do not
\* overlap; the text put in is not looked at again
RECURSIVE Replace(_, _, _)
Replace(s, old, new) ==
    IF Len(s) < Len(old) THEN s
    ELSE IF StartsWith(s, old)
            THEN new \o Replace(SubSeq(s, Len(old) + 1, Len(s)), old, new)
            ELSE <<Head(s)>> \o Replace(Tail(s), old, new)

\* the characters of a text: the argument of strip is read as a set
CharsOf(s) == {s[i] : i \in 1..Len(s)}

RECURSIVE LStrip(_, _)
LStrip(s, chars) ==
    IF s # <<>> /\ Head(s) \in chars THEN LStrip(Tail(s), chars) ELSE s

RECURSIVE RStrip(_, _)
RStrip(s, chars) ==
    IF s # <<>> /\ s[Len(s)] \in chars THEN RStrip(SubSeq(s, 1, Len(s) - 1), chars) ELSE s

\* s.strip(chars): characters of the set are removed from both ends
Strip(s, chars) == RStrip(LStrip(s, chars), chars)

\* s.find(sub), counted from 1; 0 when sub does not occur
Find(s, sub) ==
    LET at == {i \in 1..(Len(s) - Len(sub) + 1) : SubSeq(s, i, i + Len(sub) - 1) = sub}
    IN  IF at = {} THEN 0 ELSE CHOOSE i \in at : \A j \in at : i <= j

\* sub in s
Contains(s, sub) == Find(s, sub) # 0

\* s.split(sep)[0]
SplitFirst(s, sep) ==
    IF Find(s, sep) = 0 THEN s ELSE SubSeq(s, 1, Find(s, sep) - 1)

\* s.split(sep)[-1]
RECURSIVE SplitLast(_, _)
SplitLast(s, sep) ==
    IF Find(s, sep) = 0 THEN s
    ELSE SplitLast(SubSeq(s, Find(s, sep) + Len(sep), Len(s)), sep)

\* list.index(x), counted from 1; 0 where Python raises ValueError
IndexOf(seq, x) ==
    LET at == {i \in 1..Len(seq) : seq[i] = x}
    IN  IF at = {} THEN 0 ELSE CHOOSE i \in at : \A j \in at : i <= j

\* ' '.join(texts)
RECURSIVE Join(_)
Join(texts) ==
    IF texts = <<>> THEN <<>>
    ELSE IF Len(texts) = 1 THEN texts[1]
    ELSE texts[1] \o <<" ">> \o Join(Tail(texts))

\* a value a callee returns, or the exception it raises
Raised(exc) == [k |-> exc, s |-> <<>>]
Returned(v) == v.k \in {"str", "absent"}
\* the truth of a text or None
Truthy(v) == v.k = "str" /\ v.s # <<>>

\* the test of the loop over find_all('a', href=True)
IsImageLink(link) ==
    link.href.s # <<>> /\ StartsWith(link.href.s, ImagePrefix)

\* find_all('a', href=True)
HasHref(e) == e.tag = "a" /\ e.href.k = "str"

\* a loop over the links in which every match overwrites hd_data
RECURSIVE HdLink_Last(_, _)
HdLink_Last(links, hd_data) ==
    IF links = <<>> THEN hd_data
    ELSE IF IsImageLink(Head(links))
            THEN HdLink_Last(Tail(links), BASE \o Head(links).href.s)
            ELSE HdLink_Last(Tail(links), hd_data)

\* _get_apod_chars: the loop that looks for the link of the hd image
RECURSIVE HdLink(_, _)
HdLink(links, hd_data) ==
    IF links = <<>> THEN hd_data
    ELSE IF IsImageLink(Head(links))
            THEN BASE \o Head(links).href.s
            ELSE HdLink(Tail(links), hd_data)

\* _explanation: the handler for later entries, on the text of the third p
ExplanationLater(text) ==
    LET s1 == Replace(text, <<"\n">>, <<" ">>)
        s2 == Replace(s1, <<" ", " ">>, <<" ">>)
        s3 == Strip(Strip(s2, {" "}), CharsOf(Label))
        s4 == SplitFirst(s3, Teaser)
    IN  Strip(s4, {" "})

\* _explanation: the handler for earlier entries, on the lines of the page
ExplanationEarlier(lines) ==
    LET texts == [i \in 1..Len(lines) |-> Strip(lines[i], Whitespace)]
        own_line == IndexOf(texts, ExplanationColon)
        explanation_line == {i \in 1..Len(texts) : Contains(texts[i], ExplanationColon)}
        rare == own_line = 0 /\ Cardinality(explanation_line) = 1
        begin_idx == IF own_line # 0 THEN own_line + 1
                     ELSE IF rare THEN CHOOSE i \in explanation_line : TRUE
                     ELSE 0
        cut == IF rare
                  THEN [texts EXCEPT ![begin_idx] =
                            Strip(SubSeq(texts[begin_idx], Len(ExplanationColon) + 1,
                                         Len(texts[begin_idx])), Whitespace)]
                  ELSE texts
        rest == SubSeq(cut, begin_idx, Len(cut))
        idx == IndexOf(rest, <<>>)
    IN  IF begin_idx = 0 \/ idx = 0 THEN Raised("ValueError")
        ELSE Str(Join(SubSeq(rest, 1, idx - 1)))

\* _explanation
Explanation(page) ==
    IF page.para3.k = "absent" THEN Raised("IndexError")
    ELSE IF ExplanationLater(page.para3.s) # <<>> THEN Str(ExplanationLater(page.para3.s))
    ELSE ExplanationEarlier(page.lines)

\* _title
Title(page) ==
    IF Len(page.centers) >= 2 /\ Len(page.centers[2]) >= 1
       THEN Str(Strip(page.centers[2][1], {" "}))
    ELSE IF page.title.k = "absent" THEN Raised("AttributeError")
    ELSE Str(Strip(SplitLast(page.title.s, TitleSep), Whitespace))

\* findAll('a', text=True)
IsTextAnchor(e) == e.tag = "a" /\ e.string.k = "str"

\* a scan that takes the text of the anchor that holds "Copyright"
RECURSIVE CopyrightScan_Own(_, _)
CopyrightScan_Own(anchors, use_next) ==
    IF anchors = <<>> THEN Absent
    ELSE IF Contains(Head(anchors).string.s, CopyrightWord)
            THEN Str(Strip(Head(anchors).string.s, {" "}))
            ELSE CopyrightScan_Own(Tail(anchors), use_next)

\* _copyright: the first loop, over the anchors with a text
RECURSIVE CopyrightScan(_, _)
CopyrightScan(anchors, use_next) ==
    IF anchors = <<>> THEN Absent
    ELSE IF use_next THEN Str(Strip(Head(anchors).string.s, {" "}))
    ELSE CopyrightScan(Tail(anchors), Contains(Head(anchors).string.s, CopyrightWord))

\* element.text
TextOf(e) == IF e.string.k = "str" THEN e.string.s ELSE <<>>

\* _copyright: the texts of the siblings after element i, concatenated
RECURSIVE SiblingText(_, _)
SiblingText(elems, i) ==
    IF i >= Len(elems) THEN <<>>
    ELSE TextOf(elems[i + 1]) \o SiblingText(elems, i + 1)

\* _copyright: the second loop, over the b and a elements with a text, from
\* element i on
RECURSIVE CopyrightSiblings(_, _, _)
CopyrightSiblings(elems, i, copyright_text) ==
    IF i > Len(elems) THEN copyright_text
    ELSE IF /\ elems[i].string.k = "str"
            /\ Contains(elems[i].string.s, CopyrightWord)
            /\ SiblingText(elems, i) # <<>>
            THEN CopyrightSiblings(elems, i + 1, Str(Strip(SiblingText(elems, i), {" "})))
            ELSE CopyrightSiblings(elems, i + 1, copyright_text)

\* _copyright
Copyright(page) ==
    LET copyright_text == CopyrightScan(SelectSeq(page.elems, IsTextAnchor), FALSE)
    IN  IF Truthy(copyright_text) THEN copyright_text
        ELSE CopyrightSiblings(page.elems, 1, copyright_text)

\* ---- the pages
RECURSIVE Texts(_, _)
\* the texts of at most n characters over an alphabet
Texts(alphabet, n) ==
    IF n = 0 THEN {<<>>}
    ELSE Texts(alphabet, n - 1) \cup
         {<<c>> \o t : c \in alphabet, t \in {u \in Texts(alphabet, n - 1) : Len(u) = n - 1}}

RECURSIVE Lists(_, _)
\* the lists of at most n members of a set
Lists(S, n) ==
    IF n = 0 THEN {<<>>}
    ELSE Lists(S, n - 1) \cup
         {<<x>> \o l : x \in S, l \in {m \in Lists(S, n - 1) : Len(m) = n - 1}}

ImgSrc == <<"i","m","a","g","e","/","s",".","j","p","g">>
FrameSrc == <<"h","t","t","p","s",":","/","/","v","/","e","m","b","e","d">>
ExampleBody == <<"A"," ","n","i","c","e"," ","s","k","y",".">>
ExampleRest == <<":"," ","m","o","r","e"," ","s","k","y",".">>
TitleText == <<" ","S","k","y"," ">>
PageTitle == <<"A","P","O","D"," ","-"," ","S","k","y","\n">>
JaneDoe == <<"J","a","n","e"," ","D","o","e">>

BodyChars == {"a", "s", " ", "\n"}
Bodies == Texts(BodyChars, MaxBody) \cup {ExampleBody}
Rests == {<<>>, ExampleRest}
Paragraph(body, rest) == Label \o body \o Teaser \o rest

Hrefs ==
    {Absent, Str(<<>>), Str(ImagePrefix \o <<"/","a">>), Str(ImagePrefix \o <<"/","b">>),
     Str(<<"a","p","/">> \o ImagePrefix)}
Strings ==
    {Absent, Str(CopyrightWord \o <<":">>), Str(JaneDoe), Str(<<" ","J","D"," ">>),
     Str(<<" ">>)}
Links == {[tag |-> "a", href |-> h, string |-> Absent] : h \in Hrefs}
Elements == {[tag |-> t, href |-> Absent, string |-> s] : t \in {"a", "b"}, s \in Strings}

LinesOfPage ==
    {<<>>,
     <<ExplanationColon, <<"A"," ","s","k","y",".">>, <<"\t">>, <<"e","n","d">>>>,
     <<ExplanationColon \o <<" ","A"," ","s","k","y",".">>, <<>>>>,
     <<ExplanationColon, <<"A"," ","s","k","y",".">>>>}

\* an image page of a recent layout
PlainPage ==
    [img |-> Str(ImgSrc), iframe |-> Absent, elems |-> <<>>,
     para3 |-> Str(Paragraph(ExampleBody, ExampleRest)), lines |-> <<>>,
     centers |-> << <<>>, <<TitleText>> >>, title |-> Absent]

Pages ==
    {[PlainPage EXCEPT !.para3 = Str(Paragraph(body, rest))] : body \in Bodies, rest \in Rests}
    \cup {[PlainPage EXCEPT !.img = i, !.iframe = f, !.elems = l] :
            i \in {Absent, Str(ImgSrc)}, f \in {Absent, Str(FrameSrc)},
            l \in Lists(Links, MaxElems)}
    \cup {[PlainPage EXCEPT !.elems = l] : l \in Lists(Elements, MaxElems)}
    \cup {[PlainPage EXCEPT !.para3 = p, !.lines = l] :
            p \in {Absent, Str(<<>>), Str(Label)}, l \in LinesOfPage}
    \cup {[PlainPage EXCEPT !.centers = c, !.title = t] :
            c \in {<<>>, << <<TitleText>>, <<>> >>}, t \in {Absent, Str(PageTitle)}}

\* ---- the steps of _get_apod_chars(dt), dt being cur
ExtractInit ==
    /\ soup \in Pages
    /\ props = NoProps
    /\ args = [date |-> Absent, count |-> [k |-> "absent", n |-> 0],
               start_date |-> Absent, end_date |-> Absent, other |-> "none"]
    /\ alchemy_key = "unread"
    /\ clock = BEGIN_ORDINAL
    /\ ticks = 0
    /\ reads = {}
    /\ pc = "chars_urls"
    /\ mode = "single"
    /\ cur = BEGIN_ORDINAL
    /\ flag = FALSE
    /\ end_ord = 0
    /\ today_ord = 0
    /\ pending = <<>>
    /\ checks = <<>>
    /\ units = <<>>
    /\ all_data = <<>>
    /\ raised = "none"
    /\ response = NoResponse

\* what no step of the extraction changes
Kept == <<soup, args, alchemy_key, clock, ticks, reads, mode, cur, flag, end_ord,
          today_ord, pending, checks, units, all_data, response>>

\* a callee's return value is stored, or its exception leaves _get_apod_chars
Stored(v, field, next) ==
    IF Returned(v)
       THEN /\ props' = [props EXCEPT ![field] = v.s]
            /\ pc' = next
            /\ raised' = raised
       ELSE /\ props' = props
            /\ pc' = "chars_raised"
            /\ raised' = v.k

\* media_type, data and hd_data: the image and its hd link, or the video
CharsUrls ==
    /\ pc = "chars_urls"
    /\ IF soup.img.k = "str"
          THEN LET data == BASE \o soup.img.s
               IN  /\ props' = [props EXCEPT
                                    !.media_type = "image",
                                    !.url = data,
                                    !.hdurl = Str(HdLink(SelectSeq(soup.elems, HasHref), data))]
                   /\ pc' = "chars_explanation"
                   /\ raised' = raised
          ELSE IF soup.iframe.k = "str"
          THEN /\ props' = [props EXCEPT !.media_type = "video", !.url = soup.iframe.s]
               /\ pc' = "chars_explanation"
               /\ raised' = raised
          ELSE \* soup.iframe is None
               /\ props' = props
               /\ pc' = "chars_raised"
               /\ raised' = "TypeError"
    /\ UNCHANGED Kept

\* props['explanation'] = _explanation(soup)
CharsExplanation ==
    /\ pc = "chars_explanation"
    /\ Stored(Explanation(soup), "explanation", "chars_title")
    /\ UNCHANGED Kept

\* props['title'] = _title(soup)
CharsTitle ==
    /\ pc = "chars_title"
    /\ Stored(Title(soup), "title", "chars_copyright")
    /\ UNCHANGED Kept

\* copyright_text = _copyright(soup), kept if it is true; then the date
CharsCopyright ==
    /\ pc = "chars_copyright"
    /\ props' = [props EXCEPT
                    !.copyright = IF Truthy(Copyright(soup)) THEN Copyright(soup) ELSE Absent,
                    !.date = IsoFormat(cur)]
    /\ pc' = "chars_return"
    /\ UNCHANGED <<raised, Kept>>

ExtractNext ==
    \/ CharsUrls
    \/ CharsExplanation
    \/ CharsTitle
    \/ CharsCopyright

ExtractSpec == ExtractInit /\ [][ExtractNext]_vars

\* ------------------------------------------------------------------ claims
Done == pc = "done"
Succeeded == response.kind \in {"object", "array"}
DatesOf(body) == [i \in 1..Len(body) |-> body[i].date]
Distinct(seq) == \A i, j \in 1..Len(seq) : i # j => seq[i] # seq[j]

\* C1: a random-sample request with count = n that completes with a result
\* returns exactly n records whose dates are pairwise distinct.
C1_RandomDistinct ==
    (Done /\ mode = "random" /\ Succeeded) =>
        /\ Len(response.body) = args.count.n
        /\ Distinct(DatesOf(response.body))

\* C2: a unit fetches its day first; after a failure it fetches the day
\* before, once, if and only if fallback is allowed, and that second fetch
\* decides the outcome; without fallback the first failure is the outcome.
\* No unit fetches more than twice, nor any day but dt and dt - 1.
C2_FallbackOnce ==
    \A i \in 1..Len(units) :
        LET u == units[i]
            n == Len(u.tries)
        IN  /\ n <= 2
            /\ n >= 1 => u.tries[1].day = u.dt
            /\ n = 2 => /\ u.fb
                        /\ ~u.tries[1].ok
                        /\ u.tries[2].day = u.dt - 1
                        /\ u.status # "running"
                        /\ u.tries[2].ok => u.result = IsoFormat(u.dt - 1)
                        /\ ~u.tries[2].ok => u.status = "failed" /\ u.result = <<>>
            /\ (n = 1 /\ ~u.tries[1].ok) =>
                    IF u.fb THEN u.status = "running" /\ pc = "attempt2"
                            ELSE u.status = "failed" /\ raised # "none"
            /\ (n = 1 /\ u.tries[1].ok) => u.result = IsoFormat(u.dt) /\ u.status # "running"
            /\ u.status = "running" => i = Len(units) /\ pc \in {"attempt1", "attempt2"}

\* a unit whose first fetch failed was answered by the page of the day before
C2_Witness ==
    \E i \in 1..Len(units) :
        /\ Len(units[i].tries) = 2
        /\ units[i].tries[2].ok
        /\ units[i].status = "ok"

\* the unit's date was given by the caller: date, start_date or end_date
ExplicitDate(u) ==
    \/ mode = "single" /\ TruthyDate(args.date)
    \/ mode = "range" /\ u.dt = Strptime(args.start_date.s)
    \/ mode = "range" /\ TruthyDate(args.end_date) /\ u.dt = end_ord

\* the unit's date comes from today and not from the caller: the defaulted
\* date, the defaulted end of a range, a drawn day
DefaultedDate(u) ==
    \/ mode = "single" /\ ~TruthyDate(args.date)
    \/ mode = "range" /\ ~TruthyDate(args.end_date) /\ u.dt = end_ord
    \/ mode = "random"

\* C3 as stated: in all modes fallback is allowed only for a date defaulted
\* from today, never for a date the caller gave.
C3_OnlyDefaulted ==
    \A i \in 1..Len(units) :
        /\ units[i].fb => DefaultedDate(units[i])
        /\ ExplicitDate(units[i]) => ~units[i].fb

\* C3 amended: in single-date mode fallback is allowed exactly when the caller
\* gave no date; in the batch modes it is allowed exactly for the day equal to
\* today_ordinal, given by the caller or not.
C3_FlagByMode ==
    \A i \in 1..Len(units) :
        /\ mode = "single" => (units[i].fb <=> ~TruthyDate(args.date))
        /\ mode \in {"range", "random"} => (units[i].fb <=> units[i].dt = today_ord)

\* a range whose end_date the caller gave runs that day with fallback allowed
C3_Witness ==
    /\ mode = "range"
    /\ TruthyDate(args.end_date)
    /\ \E i \in 1..Len(units) : units[i].fb /\ units[i].dt = end_ord

\* C4: every failing request ends as an error response whose status is its
\* code: 400 for a parameter or validation error, 500 for any other failure.
C4_ErrorResponse ==
    (Done /\ ~Succeeded) =>
        /\ response.kind = "error"
        /\ response.code \in {400, 500}
        /\ (mode = "single" /\ raised = "MalformedDate") => response.code = 400

AllFirstTry == \A i \in 1..Len(units) : Len(units[i].tries) = 1 /\ units[i].tries[1].ok

\* C5: a range request whose every day is fetched at the first attempt returns
\* one record per day from start to end, in ascending order.
C5_RangeComplete ==
    (Done /\ mode = "range" /\ raised = "none" /\ AllFirstTry) =>
        LET start == Strptime(args.start_date.s)
        IN  /\ response.kind = "array"
            /\ Len(response.body) = end_ord - start + 1
            /\ \A i \in 1..Len(response.body) :
                    response.body[i].date = IsoFormat(start + i - 1)

\* a three-day range was returned whole
C5_Witness ==
    /\ Done /\ mode = "range" /\ raised = "none" /\ AllFirstTry
    /\ Len(response.body) = 3

FirstTryOk(u) == u.status = "ok" /\ Len(u.tries) = 1
ServedByFallback(u) == u.status = "ok" /\ Len(u.tries) = 2

\* C6: range mode keeps exactly the records of the days answered by their
\* own page, drops the record of a day answered by the day before without an
\* error, and so returns dates of [start, end] with none twice.
C6_RangeFilter ==
    mode = "range" =>
        LET kept == SelectSeq(units, FirstTryOk)
        IN  /\ Len(all_data) = Len(kept)
            /\ \A i \in 1..Len(all_data) :
                    /\ all_data[i].date = IsoFormat(kept[i].dt)
                    /\ all_data[i].date \in
                         {IsoFormat(d) : d \in Strptime(args.start_date.s)..end_ord}
            /\ Distinct(DatesOf(all_data))
            /\ (\E i \in 1..Len(units) : ServedByFallback(units[i])) =>
                    /\ raised = "none"
                    /\ pc \in {"range_loop", "done"}
                    /\ Done => response.kind = "array" /\ response.body = all_data

\* a range response that lacks the day the fallback answered
C6_Witness ==
    /\ Done /\ mode = "range" /\ response.kind = "array"
    /\ Len(units) = 2
    /\ ServedByFallback(units[2])
    /\ Len(response.body) = 1

\* a parameter is carried by the query
Has(p) == p.k # "absent"

\* the outcome C7 states for a parameter set
ClaimedDispatch(a) ==
    IF a.other \notin {"none", "concept_tags"} THEN "reject"
    ELSE IF ~Has(a.count) /\ ~Has(a.start_date) /\ ~Has(a.end_date) THEN "single"
    ELSE IF Has(a.count) /\ ~Has(a.date) /\ ~Has(a.start_date) /\ ~Has(a.end_date)
        THEN "random"
    ELSE IF Has(a.start_date) /\ ~Has(a.date) /\ ~Has(a.count) THEN "range"
    ELSE "reject"

\* C7: apod() runs the mode its parameter set names and rejects every other
\* set, and every unknown parameter name, as a client error with no unit run.
C7_Dispatch ==
    mode # "none" =>
        /\ ClaimedDispatch(args) # "reject" => mode = ClaimedDispatch(args)
        /\ ClaimedDispatch(args) = "reject" =>
                /\ mode \in {"reject_field", "reject_combo"}
                /\ units = <<>>
                /\ Done => response.kind = "error" /\ response.code = 400

\* C8: _validate_date returns for every date of [1995-06-16, today] and
\* raises the out-of-range error for every other date.
C8_ValidateDate ==
    \A i \in 1..Len(checks) :
        LET c == checks[i]
        IN  /\ c.ok <=> (BEGIN_ORDINAL <= c.dt /\ c.dt <= c.today)
            /\ ~c.ok => i = Len(checks) /\ raised = "OutOfRangeDate" /\ units = <<>>
            /\ c.today \in reads

\* the earliest day and today were both validated
C8_Witness ==
    /\ Len(checks) = 2
    /\ checks[1].ok /\ checks[1].dt = BEGIN_ORDINAL
    /\ checks[2].ok /\ checks[2].dt = checks[2].today
    /\ checks[2].dt > BEGIN_ORDINAL

\* C9: random-sample mode raises InvalidCount for every count <= 0 and every
\* count > 100 before it reads the clock, draws or fetches, and for no count
\* from 1 to 100.
C9_CountCheck ==
    (mode = "random" /\ args.count.k = "int" /\ pc # "random_check") =>
        IF args.count.n <= 0 \/ args.count.n > 100
           THEN /\ raised = "InvalidCount"
                /\ reads = {} /\ pending = <<>> /\ units = <<>>
           ELSE /\ raised # "InvalidCount"
                /\ pc = "random_draw" \/ reads # {}

\* the count 100 passed the check
C9_Witness ==
    mode = "random" /\ args.count.k = "int" /\ args.count.n = 100 /\ pc = "random_draw"

\* C10: a range whose two ends are valid is refused with InvalidRange, and
\* runs no unit, exactly when start is after end; start = end is one day.
C10_RangeOrder ==
    (mode = "range" /\ today_ord # 0) =>
        LET start == Strptime(args.start_date.s)
        IN  /\ start > end_ord =>
                 raised = "InvalidRange" /\ units = <<>> /\ all_data = <<>>
            /\ start <= end_ord => raised # "InvalidRange"
            /\ (start = end_ord /\ Done /\ raised = "none") =>
                 /\ Len(units) = 1
                 /\ units[1].dt = start
                 /\ response.kind = "array"

\* a range with start_date after end_date was refused
C10_Witness ==
    /\ mode = "range" /\ Done /\ raised = "InvalidRange"
    /\ TruthyDate(args.end_date)
    /\ Strptime(args.start_date.s) = end_ord + 2

\* the page a date names in the source's URLs: apYYMMDD.html
PageOfDate(date) == <<date[1] % 100, date[2], date[3]>>

\* the records built so far and the records returned
Emitted ==
    {all_data[i] : i \in 1..Len(all_data)} \cup {response.body[i] : i \in 1..Len(response.body)}

\* C11: every emitted record carries the date whose page was fetched to build
\* it: the requested date after a first fetch that succeeded, the day before
\* after the fallback; never the requested date with the fallback's page.
C11_DateIsPage ==
    /\ \A r \in Emitted :
            /\ r.page = PageOfDate(r.date)
            /\ \E i \in 1..Len(units) :
                    /\ units[i].status = "ok"
                    /\ r.date = IsoFormat(units[i].tries[Len(units[i].tries)].day)
    /\ \A i \in 1..Len(units) :
            LET u == units[i]
                n == Len(u.tries)
            IN  u.status = "ok" =>
                    /\ u.tries[n].ok
                    /\ u.result = IsoFormat(u.tries[n].day)
                    /\ n = 1 => u.result = IsoFormat(u.dt)
                    /\ n = 2 => u.result = IsoFormat(u.dt - 1) /\ u.result # IsoFormat(u.dt)

\* a single-date response built from the page of the day before
C11_Witness ==
    /\ Done /\ mode = "single" /\ response.kind = "object"
    /\ Len(units[1].tries) = 2
    /\ response.body[1].date = IsoFormat(units[1].dt - 1)
    /\ response.body[1].page = UrlDate(units[1].dt - 1)

\* C15: in the batch modes one value of today serves the whole request: the
\* default of end_date, the validations and the fallback flag all use the
\* same day, also when midnight passes while the request is in progress.
C15_OneToday ==
    mode \in {"range", "random"} =>
        /\ Cardinality(reads) <= 1
        /\ \A i \in 1..Len(checks) : today_ord # 0 => checks[i].today = today_ord

\* C16: in the batch modes a day is run with fallback allowed if and only if
\* it is today_ordinal; any other day is fetched once, for itself, and its
\* failure is the unit's failure, never answered with the day before.
C16_BatchFlag ==
    mode \in {"range", "random"} =>
        \A i \in 1..Len(units) :
            LET u == units[i]
            IN  /\ u.fb <=> (u.dt = today_ord)
                /\ u.dt # today_ord =>
                        /\ Len(u.tries) <= 1
                        /\ \A j \in 1..Len(u.tries) : u.tries[j].day = u.dt
                        /\ (Len(u.tries) = 1 /\ ~u.tries[1].ok) =>
                                u.status = "failed" /\ u.result = <<>> /\ raised # "none"

\* a range served its first day and lost its second, a day other than today,
\* at that day's only fetch
C16_Witness ==
    /\ mode = "range"
    /\ Len(units) = 2
    /\ units[1].status = "ok" /\ ~units[1].fb
    /\ units[2].dt # today_ord /\ units[2].status = "failed"
    /\ Len(units[2].tries) = 1


\* the units of the request that ended without a record
FailedUnits == {i \in 1..Len(units) : units[i].status = "failed"}

\* C17: in the batch modes a unit that fails unrecovered ends the request:
\* it is the last unit run, the failure is raised out of the loop, and the
\* response is never an array, so the records of the days that succeeded are
\* not returned; a returned array holds at most one record per unit run, each
\* the record of a unit that succeeded, and never an error entry.
C17_NoPartial ==
    mode \in {"range", "random"} =>
        /\ FailedUnits # {} =>
                /\ FailedUnits = {Len(units)}
                /\ pc \in {"catch", "done"}
                /\ raised # "none"
                /\ response.kind \notin {"array", "object"}
                /\ response.body = <<>>
        /\ response.kind = "array" =>
                /\ FailedUnits = {}
                /\ Len(response.body) <= Len(units)
                /\ \A i \in 1..Len(response.body) :
                        /\ response.body[i].service_version = SERVICE_VERSION
                        /\ \E j \in 1..Len(units) :
                                units[j].status = "ok" /\ units[j].result = response.body[i].date

\* a batch had collected a record when its next day failed, and ended
\* without returning it
C17_Witness ==
    /\ Done
    /\ mode \in {"range", "random"}
    /\ Len(all_data) >= 1
    /\ FailedUnits # {}
    /\ response.kind = "exception"


\* C18: every record emitted by any mode carries a date of the window,
\* 1995-06-16 <= date <= today, the record of the fallback included.
C18_InWindow ==
    \A r \in Emitted :
        /\ BEGIN_ORDINAL <= ToOrdinal(r.date)
        /\ ToOrdinal(r.date) <= clock


\* the request runs to its end: the handler is one sequential computation
\* whose every step is taken in turn, a page fetch being a call that returns
\* (with the page or with an exception)
FairSpec == Init /\ [][Next]_vars /\ WF_vars(Next)

\* the page fetches the first n units of the request have performed
RECURSIVE FetchesOf(_)
FetchesOf(n) == IF n = 0 THEN 0 ELSE FetchesOf(n - 1) + Len(units[n].tries)

Fetches == FetchesOf(Len(units))

\* the days a batch request runs over: the count drawn, or the days from
\* start_date to end_date
Days ==
    IF mode = "random" THEN args.count.n
    ELSE end_ord - Strptime(args.start_date.s) + 1

\* at most one unit is fallback-eligible; a single-date request fetches at
\* most twice; a batch over k days fetches at most k + 1 times, and at least
\* once unless validation turned it down
FetchBound ==
    /\ Cardinality({i \in 1..Len(units) : units[i].fb}) <= 1
    /\ mode = "single" => Len(units) <= 1 /\ Fetches <= 2
    /\ (mode \in {"range", "random"} /\ Len(units) >= 1) =>
            /\ Len(units) <= Days
            /\ Fetches <= Days + 1
    /\ (Done /\ mode \in {"range", "random"} /\ ~IsValueError(raised)) => Fetches >= 1
    /\ mode \notin {"single", "range", "random"} => Fetches = 0

\* C19: every request terminates, and on its way at most one unit is
\* fallback-eligible, a single-date request performs at most 2 page fetches
\* and a batch over k days at least one and at most k + 1, whatever the
\* fetches return.
C19_Terminates == []FetchBound /\ <>Done

\* a batch over at least two days ended having spent all of its k + 1 fetches
C19_Witness ==
    /\ Done
    /\ mode \in {"range", "random"}
    /\ Days >= 2
    /\ Len(units) = Days
    /\ Fetches = Days + 1


\* _get_apod_chars has stored the explanation
ExplanationStored == pc \in {"chars_title", "chars_copyright", "chars_return"}

\* the body of a paragraph as it should come out: newlines and doubled spaces
\* collapsed, surrounding spaces trimmed
BodyOut(body) ==
    Strip(Replace(Replace(body, <<"\n">>, <<" ">>), <<" ", " ">>, <<" ">>), {" "})

\* C12: for a third paragraph "Explanation: " + body + " Tomorrow's picture"
\* + rest the explanation extracted is the body, with newlines and doubled
\* spaces collapsed and surrounding spaces trimmed: no character of the body
\* is lost.
C12_BodyKept ==
    ExplanationStored =>
        \A body \in Bodies, rest \in Rests :
            (soup.para3 = Str(Paragraph(body, rest)) /\ BodyOut(body) # <<>>) =>
                props.explanation = BodyOut(body)


\* _get_apod_chars has resolved the urls and raised nothing since
UrlsStored == pc \in {"chars_explanation", "chars_title", "chars_copyright", "chars_return"}

\* the anchors of the page whose href begins with "image"
ImageAnchors ==
    {i \in 1..Len(soup.elems) :
        /\ soup.elems[i].tag = "a"
        /\ soup.elems[i].href.k = "str"
        /\ StartsWith(soup.elems[i].href.s, ImagePrefix)}

\* C13: on a page with an image url is BASE + the image's src and hdurl is
\* BASE + the href of the first anchor, in document order, whose href begins
\* with "image", or url when there is none; on a page without an image url is
\* the frame's src and there is no hdurl.
C13_UrlResolution ==
    UrlsStored =>
        IF soup.img.k = "str"
           THEN /\ props.media_type = "image"
                /\ props.url = BASE \o soup.img.s
                /\ ImageAnchors = {} => props.hdurl = Str(props.url)
                /\ \A i \in ImageAnchors :
                        (\A j \in ImageAnchors : i <= j) =>
                            props.hdurl = Str(BASE \o soup.elems[i].href.s)
           ELSE /\ props.media_type = "video"
                /\ props.url = soup.iframe.s
                /\ props.hdurl = Absent

\* a page with two different "image" links came out with the first as hdurl
C13_Witness ==
    /\ pc = "chars_return"
    /\ soup.img.k = "str"
    /\ \E i, j \in ImageAnchors :
            /\ i < j
            /\ soup.elems[i].href # soup.elems[j].href
            /\ props.hdurl = Str(BASE \o soup.elems[i].href.s)

\* _get_apod_chars has returned props
CharsReturned == pc = "chars_return"

\* the texts of the anchors that have one, in document order
AnchorTexts ==
    LET at == SelectSeq(soup.elems, IsTextAnchor)
    IN  [i \in 1..Len(at) |-> at[i].string.s]

\* the text of the anchor after the first one that holds "Copyright",
\* stripped of its spaces; empty when there is no such anchor
NextAnchorText ==
    LET hits == {i \in 1..Len(AnchorTexts) : Contains(AnchorTexts[i], CopyrightWord)}
        first == CHOOSE i \in hits : \A j \in hits : i <= j
    IN  IF hits # {} /\ first < Len(AnchorTexts)
           THEN Strip(AnchorTexts[first + 1], {" "})
           ELSE <<>>

\* the a and b elements that hold "Copyright"
CopyrightElems ==
    {i \in 1..Len(soup.elems) :
        soup.elems[i].string.k = "str" /\ Contains(soup.elems[i].string.s, CopyrightWord)}

\* C14: the copyright is the text of the anchor that follows the first anchor
\* holding "Copyright", not that anchor's own text; the texts of the siblings
\* are used only when the scan of the anchors yields nothing; a page with no
\* element holding "Copyright" has no copyright, and nothing is raised.
C14_Copyright ==
    CharsReturned =>
        /\ raised = "none"
        /\ NextAnchorText # <<>> => props.copyright = Str(NextAnchorText)
        /\ NextAnchorText = <<>> =>
                \/ props.copyright = Absent
                \/ \E i \in CopyrightElems :
                        /\ SiblingText(soup.elems, i) # <<>>
                        /\ props.copyright = Str(Strip(SiblingText(soup.elems, i), {" "}))
        /\ CopyrightElems = {} => props.copyright = Absent

\* the anchors "Copyright:" and "Jane Doe", followed by one more element,
\* gave the copyright "Jane Doe"
C14_Witness ==
    /\ CharsReturned
    /\ Len(soup.elems) = 3
    /\ Len(AnchorTexts) >= 2
    /\ AnchorTexts[1] = CopyrightWord \o <<":">>
    /\ AnchorTexts[2] = JaneDoe
    /\ soup.elems[3].string.k = "str"
    /\ props.copyright = Str(JaneDoe)

====
